---------------------------- MODULE Spec2Model ----------------------------
(***************************************************************************)
(* A model of egg-mode's place module (src/place/mod.rs): the two request  *)
(* builders GeocodeBuilder and SearchBuilder with their setters and call,  *)
(* and the JSON codecs of PlaceType, bounding_box, Place and SearchResult. *)
(*                                                                         *)
(* Two specifications share the module.  Spec runs one builder: it is      *)
(* constructed, setters are chained on it and call is invoked on it.       *)
(* CodecSpec runs the codecs: a JSON value arrives from the platform or is *)
(* produced by a serializer, and a deserializer is applied to it.          *)
(***************************************************************************)
EXTENDS Integers, Sequences, FiniteSets, TLC

VARIABLES
    builder,     \* the GeocodeBuilder or SearchBuilder being configured
    attrsOrder,  \* iteration order of builder.attributes (a HashMap's order)
    fresh,       \* history: the builder as its constructor returned it
    hist,        \* history: the setter calls made so far, in order
    reqs,        \* the requests call handed to get since the last setter
    wire,        \* the JSON value at hand
    origin,      \* where wire came from: the platform or a serializer
    decoded,     \* the result of the last deserializer applied to wire
    shown        \* the last PlaceType formatted with to_string, and the text

bvars == <<builder, attrsOrder, fresh, hist, reqs>>
cvars == <<wire, origin, decoded, shown>>
vars == <<builder, attrsOrder, fresh, hist, reqs, wire, origin, decoded, shown>>

-----------------------------------------------------------------------------
(* Bounds of the model. *)

\* Setter calls chained on one builder.
MaxSetters == 3
\* Successive call invocations recorded on one configured builder.
MaxCalls == 2
\* Coordinate pairs in a bounding box or ring.
MaxRing == 3
\* Elements of a result.places array.
MaxPlaces == 2

-----------------------------------------------------------------------------
(* Rust values. *)

\* Option<T>: None is the empty tuple, Some(v) the one-element tuple.
None == <<>>
Some(v) == <<v>>
IsSome(opt) == opt # <<>>
Unwrap(opt) == opt[1]

\* Result<T, E>.
Ok(v) == [ok |-> TRUE, val |-> v]
Err(msg) == [ok |-> FALSE, err |-> msg]

RECURSIVE Str(_)
\* The string made of a sequence of characters.
Str(chars) == IF chars = <<>> THEN "" ELSE chars[1] \o Str(Tail(chars))

Digit(d) ==
    CASE d = 0 -> "0" [] d = 1 -> "1" [] d = 2 -> "2" [] d = 3 -> "3"
      [] d = 4 -> "4" [] d = 5 -> "5" [] d = 6 -> "6" [] d = 7 -> "7"
      [] d = 8 -> "8" [] d = 9 -> "9"

RECURSIVE NatToString(_)
\* The decimal digits of a natural number, no leading zero.
NatToString(n) ==
    IF n < 10 THEN Digit(n) ELSE NatToString(n \div 10) \o Digit(n % 10)

\* A u32 is held as its two 16-bit halves <<high, low>>, so that every
\* value up to u32::MAX is at hand.
Half == 2^16
U32(n) == <<n \div Half, n % Half>>
U32Max == <<Half - 1, Half - 1>>
U32IsZero(n) == n[1] = 0 /\ n[2] = 0
U32Greater(n, small) == n[1] > 0 \/ n[2] > small

\* Quotient and remainder of a u32 by ten, by long division on the halves.
U32Div10(n) ==
    LET t == (n[1] % 10) * Half + n[2]
    IN  <<n[1] \div 10, t \div 10>>
U32Mod10(n) == ((n[1] % 10) * Half + n[2]) % 10

RECURSIVE U32ToString(_)
\* u32::to_string: the decimal digits, no sign, no leading zero.
U32ToString(n) ==
    IF n[1] = 0 /\ n[2] < 10 THEN Digit(n[2])
    ELSE U32ToString(U32Div10(n)) \o Digit(U32Mod10(n))

\* An f64 is held as a whole number of hundredths (3778 is 37.78).
\* f64's Display: the shortest decimal that reads back, "0" for 0.0, no
\* trailing zeros and no point for a whole number.
F64ToString(h) ==
    LET a == IF h < 0 THEN 0 - h ELSE h
        whole == a \div 100
        frac == a % 100
    IN  (IF h < 0 THEN "-" ELSE "")
        \o NatToString(whole)
        \o (IF frac = 0 THEN ""
            ELSE IF frac % 10 = 0 THEN "." \o Digit(frac \div 10)
            ELSE "." \o Digit(frac \div 10) \o Digit(frac % 10))

-----------------------------------------------------------------------------
(* PlaceType and Accuracy. *)

PlaceTypes == {"PointOfInterest", "Neighborhood", "City", "Admin", "Country"}

\* The serde(rename) tag of each variant, as its characters.
PlaceTypeRename(p) ==
    CASE p = "PointOfInterest" -> <<"p", "o", "i">>
      [] p = "Neighborhood" ->
            <<"n", "e", "i", "g", "h", "b", "o", "r", "h", "o", "o", "d">>
      [] p = "City" -> <<"c", "i", "t", "y">>
      [] p = "Admin" -> <<"a", "d", "m", "i", "n">>
      [] p = "Country" -> <<"c", "o", "u", "n", "t", "r", "y">>

\* serde_json::to_string of a PlaceType: the tag as a JSON string, quoted.
PlaceTypeJsonText(p) == <<"\"">> \o PlaceTypeRename(p) \o <<"\"">>

\* A variant of Display for PlaceType that keeps the closing quote mark.
PlaceTypeToString_KeepsQuote(p) ==
    LET quoted == PlaceTypeJsonText(p)
    IN  Str(SubSeq(quoted, 2, Len(quoted)))

\* Display for PlaceType: the JSON text without its first and last character.
PlaceTypeToString(p) ==
    LET quoted == PlaceTypeJsonText(p)
    IN  Str(SubSeq(quoted, 2, Len(quoted) - 1))

Meters(dist) == [unit |-> "Meters", dist |-> dist]
Feet(dist) == [unit |-> "Feet", dist |-> dist]

\* Display for Accuracy.
AccuracyToString(a) ==
    IF a.unit = "Meters" THEN F64ToString(a.dist)
    ELSE F64ToString(a.dist) \o "ft"

StringToString(s) == s

-----------------------------------------------------------------------------
(* The parameter list and the helpers of crate::common that call uses. *)

\* ParamList::new.
ParamListNew == <<>>

\* add_param: the list with the parameter added.
AddParam(params, key, value) == Append(params, <<key, value>>)

\* add_opt_param: add_param for Some(value), nothing for None.
AddOptParam(params, key, opt) ==
    IF IsSome(opt) THEN AddParam(params, key, Unwrap(opt)) ELSE params

\* add_param_ref: add_param on a list held by reference.
AddParamRef(params, key, value) == AddParam(params, key, value)

\* Option<T: ToString>::map_string, at each type call uses it at: the
\* value's to_string inside Some, None for None.
AccuracyMapString(opt) == [i \in DOMAIN opt |-> AccuracyToString(opt[i])]
PlaceTypeMapString(opt) == [i \in DOMAIN opt |-> PlaceTypeToString(opt[i])]
U32MapString(opt) == [i \in DOMAIN opt |-> U32ToString(opt[i])]
StringMapString(opt) == [i \in DOMAIN opt |-> StringToString(opt[i])]

\* links::place::REVERSE_GEOCODE and links::place::SEARCH.
REVERSE_GEOCODE == "https://api.twitter.com/1.1/geo/reverse_geocode.json"
SEARCH == "https://api.twitter.com/1.1/geo/search.json"

\* The keys of a parameter list, and the list as a set of key-value pairs.
ParamKeys(params) == {params[i][1] : i \in DOMAIN params}
ParamPairs(params) == {params[i] : i \in DOMAIN params}

-----------------------------------------------------------------------------
(* GeocodeBuilder. *)

GeocodeBuilder_new(latitude, longitude) ==
    [kind |-> "Geocode",
     coordinate |-> <<latitude, longitude>>,
     accuracy |-> None,
     granularity |-> None,
     max_results |-> None]

GeocodeBuilder_accuracy(self, accuracy) ==
    [self EXCEPT !.accuracy = Some(accuracy)]

\* A variant of granularity that rebuilds the builder from its coordinate
\* and so loses the other options.
GeocodeBuilder_granularity_Rebuilds(self, granularity) ==
    [GeocodeBuilder_new(self.coordinate[1], self.coordinate[2])
        EXCEPT !.granularity = Some(granularity)]

GeocodeBuilder_granularity(self, granularity) ==
    [self EXCEPT !.granularity = Some(granularity)]

GeocodeBuilder_max_results(self, max_results) ==
    [self EXCEPT !.max_results = Some(max_results)]

\* A variant of the clamp that lets 0 through.
GeocodeClamp_ZeroPasses(count) ==
    IF U32Greater(count, 20) THEN U32(20) ELSE count

\* The closure of call: 0 and anything above 20 become 20.
GeocodeClamp(count) ==
    IF U32IsZero(count) \/ U32Greater(count, 20) THEN U32(20) ELSE count

\* self.max_results.map(|count| ...) of call: the clamped count's to_string.
GeocodeMaxResults(opt) ==
    [i \in DOMAIN opt |-> U32ToString(GeocodeClamp(opt[i]))]

\* call: the URL and the parameter list handed to get.
GeocodeBuilder_call(self) ==
    LET p1 == AddParam(ParamListNew, "lat", F64ToString(self.coordinate[1]))
        p2 == AddParam(p1, "long", F64ToString(self.coordinate[2]))
        p3 == AddOptParam(p2, "accuracy", AccuracyMapString(self.accuracy))
        p4 == AddOptParam(p3, "granularity",
                          PlaceTypeMapString(self.granularity))
        p5 == AddOptParam(p4, "max_results",
                          GeocodeMaxResults(self.max_results))
    IN  [url |-> REVERSE_GEOCODE, params |-> p5]

-----------------------------------------------------------------------------
(* SearchBuilder. *)

LatLon(lat, long) == [tag |-> "LatLon", lat |-> lat, long |-> long]
Query(text) == [tag |-> "Query", text |-> text]
IPAddress(text) == [tag |-> "IPAddress", text |-> text]

\* A HashMap<String, String> is the function from its keys to their values;
\* the order its iterator yields the entries in is held apart (attrsOrder).
EmptyMap == [k \in {} |-> ""]

\* A variant of insert that keeps the value a key already has.
HashMapInsert_KeepsFirst(map, key, value) ==
    [k \in DOMAIN map \cup {key} |->
        IF k \in DOMAIN map THEN map[k] ELSE value]

\* HashMap::insert: the key is added, or its value replaced.
HashMapInsert(map, key, value) ==
    [k \in DOMAIN map \cup {key} |-> IF k = key THEN value ELSE map[k]]

\* The orders an iterator may yield the keys in: every one.
IterOrders(keys) ==
    {s \in [1..Cardinality(keys) -> keys] : {s[i] : i \in DOMAIN s} = keys}

\* A variant of new that starts max_results at the endpoint's default.
SearchBuilder_new_Default20(query) ==
    [kind |-> "Search",
     query |-> query,
     accuracy |-> None,
     granularity |-> None,
     max_results |-> Some(U32(20)),
     contained_within |-> None,
     attributes |-> None]

SearchBuilder_new(query) ==
    [kind |-> "Search",
     query |-> query,
     accuracy |-> None,
     granularity |-> None,
     max_results |-> None,
     contained_within |-> None,
     attributes |-> None]

SearchBuilder_accuracy(self, accuracy) ==
    [self EXCEPT !.accuracy = Some(accuracy)]

SearchBuilder_granularity(self, granularity) ==
    [self EXCEPT !.granularity = Some(granularity)]

SearchBuilder_max_results(self, max_results) ==
    [self EXCEPT !.max_results = Some(max_results)]

SearchBuilder_contained_within(self, contained_id) ==
    [self EXCEPT !.contained_within = Some(contained_id)]

\* A variant of attribute that inserts only where the key is new.
SearchBuilder_attribute_KeepsFirst(self, attribute_key, attribute_value) ==
    LET attrs == IF IsSome(self.attributes) THEN Unwrap(self.attributes)
                 ELSE EmptyMap
    IN  [self EXCEPT !.attributes =
            Some(HashMapInsert_KeepsFirst(attrs, attribute_key, attribute_value))]

SearchBuilder_attribute(self, attribute_key, attribute_value) ==
    LET attrs == IF IsSome(self.attributes) THEN Unwrap(self.attributes)
                 ELSE EmptyMap
    IN  [self EXCEPT !.attributes =
            Some(HashMapInsert(attrs, attribute_key, attribute_value))]

\* The keys of self.attributes (none when the option is None).
AttributeKeys(self) ==
    IF IsSome(self.attributes) THEN DOMAIN Unwrap(self.attributes) ELSE {}

\* The parameters of the query variant.
QueryParams(query) ==
    CASE query.tag = "LatLon" ->
            AddParam(AddParam(ParamListNew, "lat", F64ToString(query.lat)),
                     "long", F64ToString(query.long))
      [] query.tag = "Query" ->
            AddParam(ParamListNew, "query", StringToString(query.text))
      [] query.tag = "IPAddress" ->
            AddParam(ParamListNew, "ip", StringToString(query.text))

RECURSIVE AddAttributes(_, _, _)
\* The loop of call over the attributes, in the iterator's order.
AddAttributes(params, attrs, order) ==
    IF order = <<>> THEN params
    ELSE AddAttributes(
            AddParamRef(params, "attribute:" \o Head(order), attrs[Head(order)]),
            attrs, Tail(order))

\* A variant of the max_results argument that clamps as GeocodeBuilder does.
SearchMaxResults_Clamps(opt) ==
    [i \in DOMAIN opt |-> U32ToString(GeocodeClamp(opt[i]))]

\* self.max_results.map_string() of call: the count as given.
SearchMaxResults(opt) == U32MapString(opt)

\* call: the URL and the parameter list handed to get; order is the order
\* in which the iterator of self.attributes yields its keys.
SearchBuilder_call(self, order) ==
    LET p1 == QueryParams(self.query)
        p2 == AddOptParam(p1, "accuracy", AccuracyMapString(self.accuracy))
        p3 == AddOptParam(p2, "granularity",
                          PlaceTypeMapString(self.granularity))
        p4 == AddOptParam(p3, "max_results", SearchMaxResults(self.max_results))
        p5 == AddOptParam(p4, "contained_within",
                          StringMapString(self.contained_within))
        p6 == IF IsSome(self.attributes)
              THEN AddAttributes(p5, Unwrap(self.attributes), order)
              ELSE p5
    IN  [url |-> SEARCH, params |-> p6]

-----------------------------------------------------------------------------
(* serde_json::Value. *)

JNull == [t |-> "null"]
JNum(n) == [t |-> "num", n |-> n]
JStr(s) == [t |-> "str", s |-> s]
JArr(a) == [t |-> "arr", a |-> a]
JObj(o) == [t |-> "obj", o |-> o]

\* Value::get with a string key: the member of an object, None otherwise.
ValueGet(v, key) ==
    IF v.t = "obj" /\ key \in DOMAIN v.o THEN Some(v.o[key]) ELSE None

\* Value::get with an index (from 0): the element of an array, None otherwise.
ValueGetIndex(v, index) ==
    IF v.t = "arr" /\ index < Len(v.a) THEN Some(v.a[index + 1]) ELSE None

RECURSIVE ValueToString(_)
RECURSIVE JoinValues(_)
\* Value::to_string: the JSON text of a null, a string (with its quote
\* marks) or an array of these.
ValueToString(v) ==
    CASE v.t = "null" -> "null"
      [] v.t = "str" -> "\"" \o v.s \o "\""
      [] v.t = "arr" -> "[" \o JoinValues(v.a) \o "]"
JoinValues(a) ==
    IF a = <<>> THEN ""
    ELSE IF Len(a) = 1 THEN ValueToString(a[1])
    ELSE ValueToString(a[1]) \o "," \o JoinValues(Tail(a))

\* The error of a derived or library deserializer (its text is serde's).
SerdeError == "serde: invalid value"

-----------------------------------------------------------------------------
(* PlaceType's derived codec. *)

\* Serialize: the renamed tag as a JSON string.
PlaceTypeSerialize(p) == JStr(Str(PlaceTypeRename(p)))

\* The variant a tag names.
PlaceTypeOfTag(tag) ==
    IF \E p \in PlaceTypes : Str(PlaceTypeRename(p)) = tag
    THEN Ok(CHOOSE p \in PlaceTypes : Str(PlaceTypeRename(p)) = tag)
    ELSE Err(SerdeError)

\* Deserialize: a string that is a tag, or an object of one member whose key
\* is a tag and whose value is null.
PlaceTypeDeserialize(v) ==
    CASE v.t = "str" -> PlaceTypeOfTag(v.s)
      [] v.t = "obj" ->
            IF Cardinality(DOMAIN v.o) = 1
            THEN LET tag == CHOOSE k \in DOMAIN v.o : TRUE
                 IN  IF v.o[tag].t = "null" THEN PlaceTypeOfTag(tag)
                     ELSE Err(SerdeError)
            ELSE Err(SerdeError)
      [] OTHER -> Err(SerdeError)

-----------------------------------------------------------------------------
(* serde_bounding_box. *)

\* A JSON value that reads as (f64, f64): an array of exactly two numbers.
IsPairValue(v) ==
    v.t = "arr" /\ Len(v.a) = 2 /\ \A i \in 1..2 : v.a[i].t = "num"

\* serde_json::from_value::<Vec<(f64, f64)>>.
VecPairFromValue(v) ==
    IF v.t = "arr" /\ \A i \in DOMAIN v.a : IsPairValue(v.a[i])
    THEN Ok([i \in DOMAIN v.a |-> <<v.a[i].a[1].n, v.a[i].a[2].n>>])
    ELSE Err(SerdeError)

\* A variant of deserialize that yields no box for a ring of two pairs.
BoundingBoxDeserialize_DropsTwo(s) ==
    IF s.t = "null" THEN Ok(<<>>)
    ELSE LET coordinates == ValueGet(s, "coordinates")
             inner_arr == IF IsSome(coordinates)
                          THEN ValueGetIndex(Unwrap(coordinates), 0)
                          ELSE None
             parsed == VecPairFromValue(Unwrap(inner_arr))
         IN  IF ~IsSome(inner_arr)
             THEN Err("Malformed 'bounding_box' attribute")
             ELSE IF parsed.ok /\ Len(parsed.val) = 2 THEN Ok(<<>>)
             ELSE parsed

\* deserialize: null is the empty box; otherwise element 0 of coordinates
\* read as a sequence of pairs.
BoundingBoxDeserialize(s) ==
    IF s.t = "null" THEN Ok(<<>>)
    ELSE LET coordinates == ValueGet(s, "coordinates")
             inner_arr == IF IsSome(coordinates)
                          THEN ValueGetIndex(Unwrap(coordinates), 0)
                          ELSE None
         IN  IF ~IsSome(inner_arr)
             THEN Err("Malformed 'bounding_box' attribute")
             ELSE VecPairFromValue(Unwrap(inner_arr))

\* Serialize of Vec<(f64, f64)>: an array of two-element arrays.
VecPairSerialize(src) ==
    JArr([i \in DOMAIN src |-> JArr(<<JNum(src[i][1]), JNum(src[i][2])>>)])

\* SerBox::from: Point for one pair, Polygon otherwise.
BoxType(src) == IF Len(src) = 1 THEN "Point" ELSE "Polygon"

\* A variant of serialize that puts the pairs in a ring inside coordinates.
BoundingBoxSerialize_NestsRing(src) ==
    IF src = <<>> THEN JNull
    ELSE JObj([coordinates |-> JArr(<<VecPairSerialize(src)>>),
               type |-> JStr(BoxType(src))])

\* serialize: null for the empty box, otherwise the SerBox object.
BoundingBoxSerialize(src) ==
    IF src = <<>> THEN JNull
    ELSE JObj([coordinates |-> VecPairSerialize(src),
               type |-> JStr(BoxType(src))])

-----------------------------------------------------------------------------
(* Place's derived Deserialize and SearchResult's Deserialize. *)

StringDeserialize(v) == IF v.t = "str" THEN Ok(v.s) ELSE Err(SerdeError)

\* HashMap<String, String>: an object whose members are all strings.
AttributesDeserialize(v) ==
    IF v.t = "obj" /\ \A k \in DOMAIN v.o : v.o[k].t = "str"
    THEN Ok([k \in DOMAIN v.o |-> v.o[k].s])
    ELSE Err(SerdeError)

\* The fields of Place in the order of the struct.
PlaceFieldNames ==
    <<"id", "attributes", "bounding_box", "country", "country_code",
      "full_name", "name", "place_type", "contained_within">>
PlaceStringFields == {"id", "country", "country_code", "full_name", "name"}

\* The members a Place is read from: those of an object, or the elements of
\* an array that has one element per field.
PlaceMembers(v) ==
    IF v.t = "obj" THEN Some(v.o)
    ELSE IF v.t = "arr" /\ Len(v.a) = Len(PlaceFieldNames)
    THEN Some([k \in {PlaceFieldNames[i] : i \in DOMAIN PlaceFieldNames} |->
                 v.a[CHOOSE i \in DOMAIN PlaceFieldNames : PlaceFieldNames[i] = k]])
    ELSE None

RECURSIVE PlaceDeserialize(_)
RECURSIVE VecPlaceDeserialize(_)
RECURSIVE ContainedWithinDeserialize(_)

\* Option<Vec<Place>>: None for null, Some of the places otherwise.
ContainedWithinDeserialize(v) ==
    IF v.t = "null" THEN Ok(None)
    ELSE LET places == VecPlaceDeserialize(v)
         IN  IF places.ok THEN Ok(Some(places.val)) ELSE places

\* Place: every field but contained_within must be there and must decode;
\* members of other names are skipped.
PlaceDeserialize(v) ==
    LET members == PlaceMembers(v)
    IN  IF ~IsSome(members) THEN Err(SerdeError)
        ELSE LET m == Unwrap(members)
                 required == {PlaceFieldNames[i] : i \in DOMAIN PlaceFieldNames}
                                \ {"contained_within"}
             IN  IF ~(required \subseteq DOMAIN m) THEN Err(SerdeError)
                 ELSE LET attributes == AttributesDeserialize(m["attributes"])
                          bounding_box == BoundingBoxDeserialize(m["bounding_box"])
                          place_type == PlaceTypeDeserialize(m["place_type"])
                          contained_within ==
                              IF "contained_within" \in DOMAIN m
                              THEN ContainedWithinDeserialize(m["contained_within"])
                              ELSE Ok(None)
                      IN  IF \E k \in PlaceStringFields : ~StringDeserialize(m[k]).ok
                          THEN Err(SerdeError)
                          ELSE IF ~attributes.ok THEN attributes
                          ELSE IF ~bounding_box.ok THEN bounding_box
                          ELSE IF ~place_type.ok THEN place_type
                          ELSE IF ~contained_within.ok THEN contained_within
                          ELSE Ok([id |-> m["id"].s,
                                   attributes |-> attributes.val,
                                   bounding_box |-> bounding_box.val,
                                   country |-> m["country"].s,
                                   country_code |-> m["country_code"].s,
                                   full_name |-> m["full_name"].s,
                                   name |-> m["name"].s,
                                   place_type |-> place_type.val,
                                   contained_within |-> contained_within.val])

\* Vec<Place>: an array whose every element decodes, in the array's order.
VecPlaceDeserialize(v) ==
    IF v.t # "arr" THEN Err(SerdeError)
    ELSE IF \E i \in DOMAIN v.a : ~PlaceDeserialize(v.a[i]).ok
    THEN Err(SerdeError)
    ELSE Ok([i \in DOMAIN v.a |-> PlaceDeserialize(v.a[i]).val])

\* A variant of Vec<Place> that leaves out the elements that do not decode.
RECURSIVE KeepDecodable(_)
KeepDecodable(a) ==
    IF a = <<>> THEN <<>>
    ELSE LET place == PlaceDeserialize(Head(a))
         IN  (IF place.ok THEN <<place.val>> ELSE <<>>) \o KeepDecodable(Tail(a))
SearchResultPlaces_SkipsBad(arr) ==
    IF arr.t = "arr" THEN Some(KeepDecodable(arr.a)) ELSE None

\* <Vec<Place>>::deserialize(arr).ok() of SearchResult's deserialize.
SearchResultPlaces(arr) ==
    LET places == VecPlaceDeserialize(arr)
    IN  IF places.ok THEN Some(places.val) ELSE None

\* SearchResult: url is the text of query.url, results the places of
\* result.places; either missing is the one error.
SearchResultDeserialize(raw) ==
    LET query == ValueGet(raw, "query")
        url == IF IsSome(query) THEN ValueGet(Unwrap(query), "url") ELSE None
        result == ValueGet(raw, "result")
        places == IF IsSome(result) THEN ValueGet(Unwrap(result), "places")
                  ELSE None
        results == IF IsSome(places) THEN SearchResultPlaces(Unwrap(places))
                   ELSE None
    IN  IF ~IsSome(url) THEN Err("Malformed search result")
        ELSE IF ~IsSome(results) THEN Err("Malformed search result")
        ELSE Ok([url |-> ValueToString(Unwrap(url)), results |-> Unwrap(results)])

-----------------------------------------------------------------------------
(* The arguments the entry points and setters are called with. *)

CoordinateArgs == {<<3778, -12240>>, <<0, 0>>}
QueryArgs ==
    {LatLon(3778, -12240), Query("Seattle"), IPAddress("74.125.19.104")}
AccuracyArgs == {Meters(500), Feet(1050)}
GranularityArgs == {"City", "PointOfInterest"}
MaxResultsArgs == {U32(0), U32(1), U32(20), U32(21), U32Max}
ContainedArgs == {"247f43d441defc03"}
AttributeKeyArgs == {"street_address", "phone"}
AttributeValueArgs == {"123 Main", "555"}

\* The state of the codecs while a builder runs, and of the builder while
\* the codecs run.
CodecIdle ==
    /\ wire = [t |-> "null"]
    /\ origin = [from |-> "none"]
    /\ decoded = [as |-> "none"]
    /\ shown = [p |-> "none", s |-> ""]

BuilderIdle ==
    /\ fresh = GeocodeBuilder_new(0, 0)
    /\ builder = fresh
    /\ attrsOrder = <<>>
    /\ hist = <<>>
    /\ reqs = <<>>

\* reverse_geocode, search_point, search_query and search_ip hand out what
\* new returns.
Init ==
    /\ fresh \in {GeocodeBuilder_new(c[1], c[2]) : c \in CoordinateArgs}
                 \cup {SearchBuilder_new(q) : q \in QueryArgs}
    /\ builder = fresh
    /\ attrsOrder = <<>>
    /\ hist = <<>>
    /\ reqs = <<>>
    /\ CodecIdle

\* A setter consumes the builder and returns the next one.
Chain(next, op, arg) ==
    /\ Len(hist) < MaxSetters
    /\ builder' = next
    /\ hist' = Append(hist, [op |-> op, arg |-> arg])
    /\ reqs' = <<>>
    /\ UNCHANGED <<fresh, cvars>>

Geocode_accuracy ==
    /\ builder.kind = "Geocode"
    /\ \E a \in AccuracyArgs :
          Chain(GeocodeBuilder_accuracy(builder, a), "accuracy", <<a>>)
    /\ UNCHANGED attrsOrder

Geocode_granularity ==
    /\ builder.kind = "Geocode"
    /\ \E g \in GranularityArgs :
          Chain(GeocodeBuilder_granularity(builder, g), "granularity", <<g>>)
    /\ UNCHANGED attrsOrder

Geocode_max_results ==
    /\ builder.kind = "Geocode"
    /\ \E n \in MaxResultsArgs :
          Chain(GeocodeBuilder_max_results(builder, n), "max_results", <<n>>)
    /\ UNCHANGED attrsOrder

Geocode_call ==
    /\ builder.kind = "Geocode"
    /\ Len(reqs) < MaxCalls
    /\ reqs' = Append(reqs, GeocodeBuilder_call(builder))
    /\ UNCHANGED <<builder, attrsOrder, fresh, hist, cvars>>

Search_accuracy ==
    /\ builder.kind = "Search"
    /\ \E a \in AccuracyArgs :
          Chain(SearchBuilder_accuracy(builder, a), "accuracy", <<a>>)
    /\ UNCHANGED attrsOrder

Search_granularity ==
    /\ builder.kind = "Search"
    /\ \E g \in GranularityArgs :
          Chain(SearchBuilder_granularity(builder, g), "granularity", <<g>>)
    /\ UNCHANGED attrsOrder

Search_max_results ==
    /\ builder.kind = "Search"
    /\ \E n \in MaxResultsArgs :
          Chain(SearchBuilder_max_results(builder, n), "max_results", <<n>>)
    /\ UNCHANGED attrsOrder

Search_contained_within ==
    /\ builder.kind = "Search"
    /\ \E id \in ContainedArgs :
          Chain(SearchBuilder_contained_within(builder, id),
                "contained_within", <<id>>)
    /\ UNCHANGED attrsOrder

\* The insert may leave the map's iterator with any order of the keys.
Search_attribute ==
    /\ builder.kind = "Search"
    /\ \E k \in AttributeKeyArgs, v \in AttributeValueArgs :
          Chain(SearchBuilder_attribute(builder, k, v), "attribute", <<k, v>>)
    /\ attrsOrder' \in IterOrders(AttributeKeys(builder'))

\* A variant of call that takes the attributes out of the builder.
Search_call_TakesAttributes ==
    /\ builder.kind = "Search"
    /\ Len(reqs) < MaxCalls
    /\ reqs' = Append(reqs, SearchBuilder_call(builder, attrsOrder))
    /\ builder' = [builder EXCEPT !.attributes = None]
    /\ attrsOrder' = <<>>
    /\ UNCHANGED <<fresh, hist, cvars>>

Search_call ==
    /\ builder.kind = "Search"
    /\ Len(reqs) < MaxCalls
    /\ reqs' = Append(reqs, SearchBuilder_call(builder, attrsOrder))
    /\ UNCHANGED <<builder, attrsOrder, fresh, hist, cvars>>

Next ==
    \/ Geocode_accuracy
    \/ Geocode_granularity
    \/ Geocode_max_results
    \/ Geocode_call
    \/ Search_accuracy
    \/ Search_granularity
    \/ Search_max_results
    \/ Search_contained_within
    \/ Search_attribute
    \/ Search_call

Spec == Init /\ [][Next]_vars

-----------------------------------------------------------------------------
(* What the history says of a builder, for the properties below. *)

\* Whether a setter was called, and the position of its last call.
Called(op) == \E i \in DOMAIN hist : hist[i].op = op
LastCall(op) ==
    CHOOSE i \in DOMAIN hist :
        hist[i].op = op /\ \A j \in DOMAIN hist : j > i => hist[j].op # op

\* The attribute keys passed so far, and the value of the last call for one.
KeysPassed == {hist[i].arg[1] : i \in {j \in DOMAIN hist : hist[j].op = "attribute"}}
LastValuePassed(k) ==
    LET at == {i \in DOMAIN hist : hist[i].op = "attribute" /\ hist[i].arg[1] = k}
    IN  hist[CHOOSE i \in at : \A j \in at : j <= i].arg[2]

\* The positions of a key in a parameter list.
PositionsOf(params, key) == {i \in DOMAIN params : params[i][1] = key}

\* The decimal text of the counts the setters are called with, written out.
DecimalText(n) ==
    CASE n = <<0, 0>> -> "0"
      [] n = <<0, 1>> -> "1"
      [] n = <<0, 20>> -> "20"
      [] n = <<0, 21>> -> "21"
      [] n = <<65535, 65535>> -> "4294967295"
OneToTwenty ==
    {"1", "2", "3", "4", "5", "6", "7", "8", "9", "10",
     "11", "12", "13", "14", "15", "16", "17", "18", "19", "20"}

\* C1: on a GeocodeBuilder whose last max_results setter was given n, every
\* call emits exactly one max_results parameter; its value is n for
\* 1 <= n <= 20 and 20 for n = 0 or n > 20, so it is always one of 1..20.
C1_GeocodeMaxResultsClamped ==
    (builder.kind = "Geocode" /\ Called("max_results")) =>
        LET n == hist[LastCall("max_results")].arg[1]
            expected == IF n \in {<<0, 1>>, <<0, 20>>} THEN DecimalText(n)
                        ELSE "20"
        IN  \A r \in DOMAIN reqs :
                LET P == reqs[r].params
                    at == PositionsOf(P, "max_results")
                IN  /\ Cardinality(at) = 1
                    /\ \A i \in at : P[i][2] = expected /\ P[i][2] \in OneToTwenty

\* C1's case: max_results(1) then max_results(u32::MAX), and call has run.
C1_Witness ==
    /\ builder.kind = "Geocode"
    /\ Len(hist) >= 2
    /\ hist[Len(hist) - 1].op = "max_results"
    /\ hist[Len(hist) - 1].arg = <<U32(1)>>
    /\ hist[Len(hist)].op = "max_results"
    /\ hist[Len(hist)].arg = <<U32Max>>
    /\ reqs # <<>>
    /\ <<"max_results", "20">> \in ParamPairs(reqs[1].params)

\* C2: on a SearchBuilder whose last max_results setter was given n, every
\* call emits exactly one max_results parameter and its value is n as
\* given, 0 and values above 20 or 100 included.
C2_SearchMaxResultsUnchanged ==
    (builder.kind = "Search" /\ Called("max_results")) =>
        LET n == hist[LastCall("max_results")].arg[1]
        IN  \A r \in DOMAIN reqs :
                LET P == reqs[r].params
                    at == PositionsOf(P, "max_results")
                IN  /\ Cardinality(at) = 1
                    /\ \A i \in at : P[i][2] = DecimalText(n)

\* C2's case: max_results(0) was the last such setter and call emitted 0.
C2_Witness ==
    /\ builder.kind = "Search"
    /\ Called("max_results")
    /\ hist[LastCall("max_results")].arg[1] = U32(0)
    /\ \E i \in DOMAIN hist :
          hist[i].op = "max_results" /\ hist[i].arg = <<U32Max>>
    /\ reqs # <<>>
    /\ <<"max_results", "0">> \in ParamPairs(reqs[1].params)

\* C3: after any attribute calls on a SearchBuilder, every call emits
\* exactly one parameter attribute:<k> for each key k that was passed, with
\* the value of the last attribute call for k, and none for any other key.
C3_AttributesLastWins ==
    builder.kind = "Search" =>
        \A r \in DOMAIN reqs :
            LET P == reqs[r].params
            IN  \A k \in AttributeKeyArgs :
                    LET at == PositionsOf(P, "attribute:" \o k)
                    IN  IF k \in KeysPassed
                        THEN /\ Cardinality(at) = 1
                             /\ \A i \in at : P[i][2] = LastValuePassed(k)
                        ELSE at = {}

\* C3's case: attribute(k, v1), attribute(k, v2) and attribute of a second
\* key in between or around, and call emitted attribute:k = v2.
C3_Witness ==
    /\ builder.kind = "Search"
    /\ \E i, j \in DOMAIN hist :
          /\ i < j
          /\ hist[i].op = "attribute" /\ hist[i].arg = <<"phone", "123 Main">>
          /\ hist[j].op = "attribute" /\ hist[j].arg = <<"phone", "555">>
    /\ reqs # <<>>
    /\ <<"attribute:phone", "555">> \in ParamPairs(reqs[1].params)
    /\ <<"attribute:phone", "123 Main">> \notin ParamPairs(reqs[1].params)

\* The keys of the query a builder was constructed with.
QueryKeys ==
    IF fresh.kind = "Geocode" THEN {"lat", "long"}
    ELSE CASE fresh.query.tag = "LatLon" -> {"lat", "long"}
           [] fresh.query.tag = "Query" -> {"query"}
           [] fresh.query.tag = "IPAddress" -> {"ip"}

\* C4: the keys call emits are the query's own (lat and long, or query, or
\* ip), accuracy, granularity, max_results and contained_within each exactly
\* when its setter was called, and attribute:<key> for the keys passed; a
\* fresh builder emits the query's keys alone.
C4_EmittedKeys ==
    \A r \in DOMAIN reqs :
        ParamKeys(reqs[r].params) =
            QueryKeys
            \cup {op \in {"accuracy", "granularity", "max_results",
                          "contained_within"} : Called(op)}
            \cup {"attribute:" \o k : k \in KeysPassed}

\* C4's case: search_query with granularity and one attribute, then call.
C4_Witness ==
    /\ fresh = SearchBuilder_new(Query("Seattle"))
    /\ Len(hist) = 2
    /\ reqs # <<>>
    /\ ParamKeys(reqs[1].params) =
          {"query", "granularity", "attribute:street_address"}

\* C8: call leaves every field of the builder as it was, and each further
\* call on the builder hands get the URL and parameter list of the calls
\* before it: same keys, same values, same order.
C8_CallIdempotent ==
    [][Len(reqs') = Len(reqs) + 1 =>
          /\ builder' = builder
          /\ attrsOrder' = attrsOrder
          /\ \A i \in DOMAIN reqs : reqs'[Len(reqs')] = reqs[i]]_vars

\* C8's case: two successive calls on a SearchBuilder holding two attributes.
C8_Witness ==
    /\ builder.kind = "Search"
    /\ Cardinality(AttributeKeys(builder)) = 2
    /\ Len(reqs) >= 2
    /\ reqs[1] = reqs[2]

\* One setter call applied to a builder.
Apply(b, c) ==
    IF b.kind = "Geocode"
    THEN CASE c.op = "accuracy" -> GeocodeBuilder_accuracy(b, c.arg[1])
           [] c.op = "granularity" -> GeocodeBuilder_granularity(b, c.arg[1])
           [] c.op = "max_results" -> GeocodeBuilder_max_results(b, c.arg[1])
    ELSE CASE c.op = "accuracy" -> SearchBuilder_accuracy(b, c.arg[1])
           [] c.op = "granularity" -> SearchBuilder_granularity(b, c.arg[1])
           [] c.op = "max_results" -> SearchBuilder_max_results(b, c.arg[1])
           [] c.op = "contained_within" ->
                 SearchBuilder_contained_within(b, c.arg[1])
           [] c.op = "attribute" ->
                 SearchBuilder_attribute(b, c.arg[1], c.arg[2])

RECURSIVE Replay(_, _)
\* A sequence of setter calls chained on a builder.
Replay(b, calls) ==
    IF calls = <<>> THEN b ELSE Replay(Apply(b, Head(calls)), Tail(calls))

\* The parameters call emits for a builder, as a key-to-value mapping, under
\* each order its attributes may be iterated in.
Emitted(b) ==
    IF b.kind = "Geocode" THEN {ParamPairs(GeocodeBuilder_call(b).params)}
    ELSE {ParamPairs(SearchBuilder_call(b, o).params) :
             o \in IterOrders(AttributeKeys(b))}

\* The permutations of 1..n, for the lengths a history has.
IndexPermutations ==
    [n \in 0..MaxSetters |->
        {p \in [1..n -> 1..n] : \A i, j \in 1..n : p[i] = p[j] => i = j}]

\* What a setter call writes: its field, and for attribute its key.
Slot(c) == <<c.op, IF c.op = "attribute" THEN c.arg[1] ELSE "">>

\* The history with call p[i] in place i.
Permuted(p) == [i \in DOMAIN hist |-> hist[p[i]]]

\* The pairs of calls, first and later, that write the same slot.
SameSlotPairs ==
    {pr \in (DOMAIN hist) \X (DOMAIN hist) :
        pr[1] < pr[2] /\ Slot(hist[pr[1]]) = Slot(hist[pr[2]])}

\* The permutations that keep each of the given pairs in its order.
KeepingOrder(pairs) ==
    IF pairs = {} THEN IndexPermutations[Len(hist)]
    ELSE {p \in IndexPermutations[Len(hist)] :
            \A pr \in pairs :
                (CHOOSE i \in DOMAIN p : p[i] = pr[1])
                    < (CHOOSE i \in DOMAIN p : p[i] = pr[2])}

-----------------------------------------------------------------------------
(* The JSON values the platform sends and the values the serializers are
   given. *)

\* Every sequence over a set up to a length.
SeqsUpTo(S, n) == UNION {[1..k -> S] : k \in 0..n}

PairArgs == {<<-12240, 3770>>, <<-12230, 3780>>}
BoxArgs == SeqsUpTo(PairArgs, MaxRing)

\* A ring is the array of its pairs; a box object holds its rings.
RingValue(ring) == VecPairSerialize(ring)
BoxValue(rings) ==
    JObj([type |-> JStr("Polygon"), coordinates |-> JArr(rings)])

BoundingBoxInputs ==
    {JNull}
    \cup {BoxValue(<<RingValue(ring)>>) : ring \in BoxArgs}
    \cup {BoxValue(<<RingValue(<<<<1, 2>>>>), RingValue(<<<<3, 4>>, <<5, 6>>>>)>>),
          BoxValue(<<>>),
          BoxValue(<<JArr(<<JArr(<<JNum(1), JNum(2), JNum(3)>>)>>)>>),
          BoxValue(<<JArr(<<JArr(<<JStr("1"), JNum(2)>>)>>)>>),
          BoxValue(<<JNum(1), JNum(2)>>),
          JObj([type |-> JStr("Point")]),
          JObj([type |-> JStr("Point"), coordinates |-> JStr("1,2")]),
          JStr("box"),
          JArr(<<RingValue(<<<<1, 2>>>>)>>)}

PlaceTypeInputs ==
    {JStr(tag) : tag \in {"poi", "neighborhood", "city", "admin", "country",
                          "point", "City", "PointOfInterest", ""}}
    \cup {JNum(1), JNull,
          JObj([city |-> JNull]),
          JObj([city |-> JNum(1)]),
          JObj([city |-> JNull, poi |-> JNull]),
          JObj([town |-> JNull])}

\* A place as the platform sends it.
PlaceValue(id, bounding_box, place_type) ==
    JObj([id |-> id,
          attributes |-> JObj([street_address |-> JStr("123 Main")]),
          bounding_box |-> bounding_box,
          country |-> JStr("United States"),
          country_code |-> JStr("US"),
          full_name |-> JStr("Seattle, WA"),
          name |-> JStr("Seattle"),
          place_type |-> place_type,
          url |-> JStr("https://api.twitter.com/1.1/geo/id/300bcc6e23a88361.json")])

\* The members of an object but one, and with one more.
Without(v, key) == JObj([k \in DOMAIN v.o \ {key} |-> v.o[k]])
With(v, key, member) ==
    JObj([k \in DOMAIN v.o \cup {key} |-> IF k = key THEN member ELSE v.o[k]])

Square == <<<<-12240, 3770>>, <<-12230, 3770>>, <<-12230, 3780>>>>
Seattle == PlaceValue(JStr("300bcc6e23a88361"),
                      BoxValue(<<RingValue(Square)>>), JStr("city"))
Cafe == PlaceValue(JStr("07d9db48bc083000"), JNull, JStr("poi"))
Segment == PlaceValue(JStr("5a110d312052166f"),
                      BoxValue(<<RingValue(SubSeq(Square, 1, 2))>>),
                      JStr("neighborhood"))

PlaceInputs ==
    {PlaceValue(JStr("300bcc6e23a88361"), box, JStr("city")) :
        box \in BoundingBoxInputs}
    \cup {PlaceValue(JStr("300bcc6e23a88361"), JNull, t) : t \in PlaceTypeInputs}
    \cup {Seattle, Cafe, Segment,
          Without(Seattle, "id"),
          Without(Seattle, "bounding_box"),
          Without(Seattle, "place_type"),
          PlaceValue(JNum(1), JNull, JStr("city")),
          With(Seattle, "attributes", JObj([phone |-> JNum(555)])),
          With(Seattle, "attributes", JNull),
          With(Seattle, "contained_within", JNull),
          With(Cafe, "contained_within", JArr(<<Seattle>>)),
          With(Cafe, "contained_within", JArr(<<Without(Seattle, "id")>>)),
          With(Cafe, "contained_within", Seattle),
          JArr([i \in DOMAIN PlaceFieldNames |->
                  IF PlaceFieldNames[i] = "contained_within" THEN JNull
                  ELSE Seattle.o[PlaceFieldNames[i]]]),
          JArr(<<JStr("300bcc6e23a88361")>>),
          JStr("Seattle")}

\* The elements the places arrays are made of.
PlaceElementArgs == {Seattle, Cafe, Segment, Without(Seattle, "id")}

SearchUrl == JStr("https://api.twitter.com/1.1/geo/search.json?query=x")
QueryInputs ==
    {JObj([url |-> SearchUrl]),
     JObj([url |-> SearchUrl, type |-> JStr("search")]),
     JObj([url |-> JNull]),
     JObj([type |-> JStr("search")]),
     SearchUrl,
     JNull}
ResultInputs ==
    {JObj([places |-> JArr(a)]) : a \in SeqsUpTo(PlaceElementArgs, MaxPlaces)}
    \cup {JObj([places |-> JNull]),
          JObj([places |-> Seattle]),
          JObj([places |-> JStr("Seattle")]),
          JObj([place |-> JArr(<<Seattle>>)]),
          JArr(<<Seattle>>),
          JNull}

SearchResultInputs ==
    {JObj([query |-> q, result |-> r]) : q \in QueryInputs, r \in ResultInputs}
    \cup {JObj([query |-> q]) : q \in QueryInputs}
    \cup {JObj([result |-> r]) : r \in ResultInputs}
    \cup {JObj([url |-> SearchUrl, places |-> JArr(<<Seattle>>)]),
          JArr(<<>>)}

WireInputs ==
    BoundingBoxInputs \cup PlaceTypeInputs \cup PlaceInputs
        \cup SearchResultInputs

-----------------------------------------------------------------------------
(* The codecs at work. *)

CodecInit ==
    /\ BuilderIdle
    /\ wire \in WireInputs
    /\ origin = [from |-> "platform"]
    /\ decoded = [as |-> "none"]
    /\ shown = [p |-> "none", s |-> ""]

\* A response body arrives.
Receive ==
    /\ \E v \in WireInputs : wire' = v
    /\ origin' = [from |-> "platform"]
    /\ decoded' = [as |-> "none"]
    /\ UNCHANGED <<shown, bvars>>

Serialize_bounding_box ==
    /\ \E src \in BoxArgs :
          /\ wire' = BoundingBoxSerialize(src)
          /\ origin' = [from |-> "bounding_box", src |-> src]
    /\ decoded' = [as |-> "none"]
    /\ UNCHANGED <<shown, bvars>>

Serialize_PlaceType ==
    /\ \E p \in PlaceTypes :
          /\ wire' = PlaceTypeSerialize(p)
          /\ origin' = [from |-> "PlaceType", src |-> p]
    /\ decoded' = [as |-> "none"]
    /\ UNCHANGED <<shown, bvars>>

Deserialize_bounding_box ==
    /\ decoded' = [as |-> "bounding_box", res |-> BoundingBoxDeserialize(wire)]
    /\ UNCHANGED <<wire, origin, shown, bvars>>

Deserialize_PlaceType ==
    /\ decoded' = [as |-> "PlaceType", res |-> PlaceTypeDeserialize(wire)]
    /\ UNCHANGED <<wire, origin, shown, bvars>>

Deserialize_Place ==
    /\ decoded' = [as |-> "Place", res |-> PlaceDeserialize(wire)]
    /\ UNCHANGED <<wire, origin, shown, bvars>>

Deserialize_SearchResult ==
    /\ decoded' = [as |-> "SearchResult", res |-> SearchResultDeserialize(wire)]
    /\ UNCHANGED <<wire, origin, shown, bvars>>

\* to_string of a PlaceType.
Display_PlaceType ==
    /\ \E p \in PlaceTypes : shown' = [p |-> p, s |-> PlaceTypeToString(p)]
    /\ UNCHANGED <<wire, origin, decoded, bvars>>

CodecNext ==
    \/ Receive
    \/ Serialize_bounding_box
    \/ Serialize_PlaceType
    \/ Deserialize_bounding_box
    \/ Deserialize_PlaceType
    \/ Deserialize_Place
    \/ Deserialize_SearchResult
    \/ Display_PlaceType

CodecSpec == CodecInit /\ [][CodecNext]_vars

-----------------------------------------------------------------------------
(* Properties of the codecs. *)

\* Whether a JSON value has a member inside a member.
HasPath(v, outer, inner) ==
    /\ v.t = "obj"
    /\ outer \in DOMAIN v.o
    /\ v.o[outer].t = "obj"
    /\ inner \in DOMAIN v.o[outer].o

\* C5: a SearchResult decodes exactly when the value has query.url and
\* result.places and places is an array whose every element decodes as a
\* Place; otherwise the error is "Malformed search result"; on success
\* results holds the places in the order of the array.
C5_SearchResultDecode ==
    decoded.as = "SearchResult" =>
        LET res == decoded.res
            wellFormed ==
                /\ HasPath(wire, "query", "url")
                /\ HasPath(wire, "result", "places")
                /\ wire.o["result"].o["places"].t = "arr"
                /\ \A i \in DOMAIN wire.o["result"].o["places"].a :
                      PlaceDeserialize(wire.o["result"].o["places"].a[i]).ok
        IN  /\ res.ok <=> wellFormed
            /\ ~res.ok => res.err = "Malformed search result"
            /\ res.ok =>
                  LET places == wire.o["result"].o["places"].a
                  IN  /\ Len(res.val.results) = Len(places)
                      /\ \A i \in DOMAIN places :
                            res.val.results[i] = PlaceDeserialize(places[i]).val

\* C5's case: two different places decoded, in the order they came in.
C5_Witness ==
    /\ decoded.as = "SearchResult"
    /\ decoded.res.ok
    /\ Len(decoded.res.val.results) = 2
    /\ decoded.res.val.results[1].id = "07d9db48bc083000"
    /\ decoded.res.val.results[2].id = "300bcc6e23a88361"
    /\ decoded.res.val.url =
          "\"https://api.twitter.com/1.1/geo/search.json?query=x\""

\* The bounding boxes of the places the last deserializer produced.
DecodedBoxes ==
    IF decoded.as = "Place" /\ decoded.res.ok
    THEN {decoded.res.val.bounding_box}
    ELSE IF decoded.as = "SearchResult" /\ decoded.res.ok
    THEN {decoded.res.val.results[i].bounding_box :
             i \in DOMAIN decoded.res.val.results}
    ELSE {}

\* C6 as stated: no decoded Place has a bounding_box of exactly two pairs.
C6_NeverTwoPairs ==
    \A box \in DecodedBoxes : Len(box) \in {0, 1} \/ Len(box) >= 3

\* C6 as amended: the bounding_box of a decoded Place is empty when the
\* field is null, and otherwise is the first ring of coordinates, pair by
\* pair in its order, whatever the ring's length.
C6_BoxIsFirstRing ==
    (decoded.as = "Place" /\ decoded.res.ok) =>
        LET field == Unwrap(PlaceMembers(wire))["bounding_box"]
            box == decoded.res.val.bounding_box
        IN  IF field.t = "null" THEN box = <<>>
            ELSE LET ring == field.o["coordinates"].a[1].a
                 IN  /\ Len(box) = Len(ring)
                     /\ \A i \in DOMAIN ring :
                           box[i] = <<ring[i].a[1].n, ring[i].a[2].n>>

\* C6's case: a place whose first ring has two pairs decodes, with both.
C6_Witness ==
    /\ decoded.as = "Place"
    /\ decoded.res.ok
    /\ decoded.res.val.bounding_box = <<<<-12240, 3770>>, <<-12230, 3770>>>>

\* The wire tags, written out.
WireTag(p) ==
    CASE p = "PointOfInterest" -> "poi"
      [] p = "Neighborhood" -> "neighborhood"
      [] p = "City" -> "city"
      [] p = "Admin" -> "admin"
      [] p = "Country" -> "country"

\* C7: a PlaceType decodes from its encoding to itself; its to_string is
\* its wire tag without the JSON quotes (poi, neighborhood, city, admin,
\* country); the five tags differ; a string that is none of them does not
\* decode.
C7_PlaceTypeCodec ==
    /\ origin.from = "PlaceType" => wire = JStr(WireTag(origin.src))
    /\ (origin.from = "PlaceType" /\ decoded.as = "PlaceType") =>
          decoded.res = Ok(origin.src)
    /\ shown.p \in PlaceTypes =>
          /\ shown.s = WireTag(shown.p)
          /\ PlaceTypeSerialize(shown.p) = JStr(shown.s)
    /\ Cardinality({PlaceTypeSerialize(p) : p \in PlaceTypes}) = 5
    /\ (decoded.as = "PlaceType" /\ wire.t = "str"
          /\ wire.s \notin {WireTag(p) : p \in PlaceTypes}) =>
          ~decoded.res.ok

\* C7's case: PointOfInterest encoded, decoded and formatted.
C7_Witness ==
    /\ origin.from = "PlaceType"
    /\ origin.src = "PointOfInterest"
    /\ wire = JStr("poi")
    /\ decoded.as = "PlaceType"
    /\ decoded.res = Ok("PointOfInterest")
    /\ shown = [p |-> "PointOfInterest", s |-> "poi"]

\* C10 as stated: decoding the encoding of a bounding box yields the box.
C10_BoxRoundTrips ==
    (origin.from = "bounding_box" /\ decoded.as = "bounding_box") =>
        decoded.res = Ok(origin.src)

\* C10 as amended: decoding the encoding of a bounding box yields the box
\* when the box is empty, and fails for every box of one or more pairs.
C10_OnlyEmptyRoundTrips ==
    (origin.from = "bounding_box" /\ decoded.as = "bounding_box") =>
        IF origin.src = <<>> THEN decoded.res = Ok(<<>>)
        ELSE ~decoded.res.ok

\* C10's case: a polygon was encoded and the decoder was run on the result.
C10_Witness ==
    /\ origin.from = "bounding_box"
    /\ Len(origin.src) = 3
    /\ decoded.as = "bounding_box"
    /\ ~decoded.res.ok

=============================================================================
